---- MODULE Spec2Model ----
(***************************************************************************)
(* Sri Travels booking backend (src/server.js): the Users, Vehicles and    *)
(* Bookings collections, the authentication / authorization middleware     *)
(* chain and the fifteen route handlers.                                   *)
(*                                                                         *)
(* A document's _id is its position in its collection (documents are never *)
(* deleted by any handler).  A handler that awaits two dependent store     *)
(* calls on the Users collection (look up, then save) is two steps, with   *)
(* the request parked in the bag `pending` between them; every other       *)
(* handler is a single step.  `resp` is the response written by the last   *)
(* handler step; Flush hands it to the network before the event loop runs  *)
(* the next step.  `owner` records, per booking, the identity of the token *)
(* that created it.  `workload` is the group of endpoints the clients of a *)
(* run call (see Next).                                                    *)
(***************************************************************************)
EXTENDS Integers, Sequences, FiniteSets, Bags, TLC

VARIABLES users, vehicles, bookings, pending, resp, owner, workload, guard

vars == <<users, vehicles, bookings, pending, resp, owner, workload, guard>>

(* ------------------------------ bounds -------------------------------- *)

MaxPending == 2
MaxBookings == 2
MaxVehicles == 1

(* ------------------------------ values -------------------------------- *)

Roles == {"customer", "admin", "director", "driver"}

BookingStatuses == {"pending", "approved", "completed", "cancelled"}

VehicleStatuses == {"available", "booked", "maintenance"}

Endpoints ==
  {"register", "login", "book", "my-bookings", "admin/bookings",
   "admin/update-status", "admin/search", "director/create-admin",
   "director/add-vehicle", "director/create-driver", "director/revenue",
   "director/update-vehicle", "director/all-users", "director/toggle-user",
   "director/vehicles"}

Protected == Endpoints \ {"register", "login"}

\* Phone numbers a client may send: one that is taken (4) and two that are free.
Phones == {4, 5, 6}

Names == {"Anil"}

Passwords == {"pw", "wrong"}

\* An absent (undefined / null) value of a numeric or reference field.
Absent == -1

Amounts == {Absent, 100}

SECRET == "SRI_TRAVELS_SECRET"

NoToken == [id |-> 0, role |-> "none", sig |-> "none", expired |-> FALSE]

NoUser == [id |-> 0, role |-> "none"]

NoData == [kind |-> "none"]

\* bcrypt.hash / bcrypt.compare: a one-way image of the password.
bcryptHash(password) == <<"bcrypt", password>>

bcryptCompare(password, hash) == hash = bcryptHash(password)

\* jwt.sign(payload, SECRET, {expiresIn: "7d"})
jwtSign(payload) ==
  [id |-> payload.id, role |-> payload.role, sig |-> SECRET, expired |-> FALSE]

\* jwt.verify: the signature is ours and the token has not expired.
jwtVerify(token) == token.sig = SECRET /\ ~token.expired

UserIds == 1..Len(users)

\* User.findOne({ phoneNumber }): the id of a matching document, or Absent.
findOneByPhone(phoneNumber) ==
  IF \E i \in UserIds : users[i].phoneNumber = phoneNumber
  THEN CHOOSE i \in UserIds : users[i].phoneNumber = phoneNumber
  ELSE Absent

\* The schema without `unique: true`: the store accepts every insert.
NoUniqueIndex(phoneNumber) == TRUE

\* The unique index on phoneNumber (userSchema): does an insert pass it?
UniqueIndexAllows(phoneNumber) ==
  \A i \in UserIds : users[i].phoneNumber # phoneNumber

\* new User({...}) with the schema defaults.
NewUser(name, phoneNumber, hashedPassword, role) ==
  [name |-> name, phoneNumber |-> phoneNumber, password |-> hashedPassword,
   role |-> role, isActive |-> TRUE]

(* --------------------------- the middleware --------------------------- *)

\* The role lists given to authorizeRoles at route registration.
AllowedRoles(ep) ==
  CASE ep \in {"book", "my-bookings"} -> {"customer"}
    [] ep \in {"admin/bookings", "admin/update-status", "admin/search"} ->
         {"admin", "director"}
    [] ep \in {"director/create-admin", "director/add-vehicle",
               "director/create-driver", "director/revenue",
               "director/update-vehicle", "director/all-users",
               "director/toggle-user", "director/vehicles"} -> {"director"}
    [] OTHER -> Roles

\* A guard's outcome: next = TRUE when it calls next(), else the response sent.
Pass(user) == [next |-> TRUE, status |-> 0, error |-> "", user |-> user]

Reject(status, error, user) ==
  [next |-> FALSE, status |-> status, error |-> error, user |-> user]

\* req.headers.authorization.split(" ")[1]; the header is held as its parts.
HeaderToken(header) == IF Len(header) >= 2 THEN header[2] ELSE NoToken

VerifyFailure == Reject(403, "Token Expired", NoUser)

authenticateToken(cookie, header) ==
  IF header = <<>> THEN Reject(401, "Invalid JWT", NoUser)
  ELSE LET token == IF cookie # NoToken THEN cookie ELSE HeaderToken(header)
       IN IF token = NoToken THEN Reject(401, "Token missing", NoUser)
          ELSE IF ~jwtVerify(token) THEN VerifyFailure
          ELSE Pass([id |-> token.id, role |-> token.role])

\* A guard that forgets the role test.
authorizeAny(roles, user) == Pass(user)

authorizeRoles(roles, user) ==
  IF user.role \notin roles THEN Reject(403, "Access Denied", user) ELSE Pass(user)

\* app.<method>(path, authenticateToken, authorizeRoles(...), handler)
Chain(ep, cookie, header) ==
  LET a == authenticateToken(cookie, header)
  IN IF a.next THEN authorizeRoles(AllowedRoles(ep), a.user) ELSE a

(* ------------------------ requests and responses ---------------------- *)

\* The tokens login issues for the accounts that exist.
LoginTokens == {jwtSign([id |-> i, role |-> users[i].role]) : i \in UserIds}

\* What a client may present: an issued token, an expired one, a forged one.
ClientTokens ==
  LoginTokens
  \cup {[t EXCEPT !.expired = TRUE] : t \in {jwtSign([id |-> 1, role |-> "director"])}}
  \cup {[id |-> 1, role |-> "director", sig |-> "forged", expired |-> FALSE]}

\* <<jwt_token cookie, Authorization header parts>> of a request.
AuthInputs ==
  {<<NoToken, <<>>>>, <<NoToken, <<"Bearer">>>>}
  \cup {<<NoToken, <<"Bearer", t>>>> : t \in ClientTokens}
  \cup {<<t, <<"Bearer">>>> : t \in LoginTokens}
  \cup {<<t, <<>>>> : t \in LoginTokens}

Idle ==
  [op |-> "idle", phoneNumber |-> 0, name |-> "", password |-> <<>>,
   role |-> "none", id |-> 0, isActive |-> FALSE, overlapped |-> FALSE,
   user |-> NoUser]

\* No request ended in this step.
InFlight ==
  [ep |-> "", status |-> 0, msg |-> "", user |-> NoUser, ran |-> FALSE,
   failure |-> "none", data |-> NoData]

\* A response (status 0: the request ended and nothing was sent).
\* ran: the route handler was invoked.  failure: "store" when a store call
\* of the request failed, "notfound" when its lookup by id found no document.
Respond(ep, status, msg, user, ran, failure, data) ==
  resp' = [ep |-> ep, status |-> status, msg |-> msg, user |-> user,
           ran |-> ran, failure |-> failure, data |-> data]

\* A guard ended the request: the handler is not invoked.
Short(ep, g) == Respond(ep, g.status, g.error, g.user, FALSE, "none", NoData)

\* A rejected promise nobody catches in an async handler: Express 4 sends
\* nothing, Express 5 hands the error to its default error handler.
UnhandledRejection ==
  {[status |-> 0, msg |-> ""], [status |-> 500, msg |-> "default error handler"]}

\* err.message of a store call that fails, of an insert the unique index
\* refuses, and of a property read on the null a lookup returned.
StoreDown == "connection lost"

DuplicateKey == "E11000 duplicate key error"

NullDocument == "Cannot read properties of null"

\* catch (err) { res.status(500).json({ error: err.message }) }
Caught(ep, user, failure, message) ==
  Respond(ep, 500, message, user, TRUE, failure, NoData)

Uncaught(ep, user, failure) ==
  \E o \in UnhandledRejection :
    Respond(ep, o.status, o.msg, user, TRUE, failure, NoData)

Throws(ep, user, failure, message, caught) ==
  IF caught THEN Caught(ep, user, failure, message)
  ELSE Uncaught(ep, user, failure)

StoreUnchanged == UNCHANGED <<users, vehicles, bookings, owner>>

Rest == UNCHANGED <<workload, guard>>

\* The request is parked until its store call returns.
Park(p) ==
  /\ BagCardinality(pending) < MaxPending
  /\ pending' = pending (+) SetToBag({p})
  /\ resp' = InFlight

Resume(p) == pending' = pending (-) SetToBag({p})

Parked(ep) == {p \in BagToSet(pending) : p.op = ep}

(* ------------------------------ accounts ------------------------------ *)

\* First half of register / create-admin / create-driver:
\* await User.findOne({ phoneNumber }); reply 400 if it exists, else go on
\* to hash the password and build the document.
LookupPhone(ep, user, role, caught, existsMsg) ==
  /\ StoreUnchanged
  /\ Rest
  /\ \E phoneNumber \in Phones, name \in Names, fail \in BOOLEAN :
       IF fail
       THEN Throws(ep, user, "store", StoreDown, caught) /\ UNCHANGED pending
       ELSE IF findOneByPhone(phoneNumber) # Absent
       THEN /\ Respond(ep, 400, existsMsg, user, TRUE, "none", NoData)
            /\ UNCHANGED pending
       ELSE Park([Idle EXCEPT !.op = ep, !.phoneNumber = phoneNumber,
                              !.name = name, !.password = bcryptHash("pw"),
                              !.role = role, !.user = user])

\* Second half: await <document>.save(), then the success reply.  The
\* insert is refused by the store when the unique index forbids it.
SaveUser(ep, caught, status, okMsg) ==
  \E p \in Parked(ep), fail \in BOOLEAN :
     /\ Resume(p)
     /\ UNCHANGED <<vehicles, bookings, owner>>
     /\ Rest
     /\ IF fail
        THEN Throws(ep, p.user, "store", StoreDown, caught) /\ UNCHANGED users
        ELSE IF ~UniqueIndexAllows(p.phoneNumber)
        THEN Throws(ep, p.user, "store", DuplicateKey, caught) /\ UNCHANGED users
        ELSE /\ users' = Append(users,
                  NewUser(p.name, p.phoneNumber, p.password, p.role))
             /\ Respond(ep, status, okMsg, p.user, TRUE, "none", NoData)

\* POST /register
Register ==
  \/ LookupPhone("register", NoUser, "customer", TRUE, "User Exists")
  \/ SaveUser("register", TRUE, 201, "Customer Registered")

\* The guarded first half of create-admin / create-driver.
CreateStaffFind(ep, role) ==
  \E auth \in AuthInputs :
    LET g == Chain(ep, auth[1], auth[2])
    IN IF ~g.next
       THEN Short(ep, g) /\ StoreUnchanged /\ Rest /\ UNCHANGED pending
       ELSE LookupPhone(ep, g.user, role, FALSE, "User already exists")

\* POST /director/create-admin
CreateAdmin ==
  \/ CreateStaffFind("director/create-admin", "admin")
  \/ SaveUser("director/create-admin", FALSE, 200, "Admin Created Successfully")

\* POST /director/create-driver
CreateDriver ==
  \/ CreateStaffFind("director/create-driver", "driver")
  \/ SaveUser("director/create-driver", FALSE, 200, "Driver Created Successfully")

\* POST /login
Login ==
  \E phoneNumber \in Phones, password \in Passwords, fail \in BOOLEAN :
    LET id == findOneByPhone(phoneNumber)
    IN /\ StoreUnchanged /\ Rest /\ UNCHANGED pending
       /\ IF fail THEN Uncaught("login", NoUser, "store")
          ELSE IF id = Absent
          THEN Respond("login", 400, "Invalid User", NoUser, TRUE, "none", NoData)
          ELSE IF ~bcryptCompare(password, users[id].password)
          THEN Respond("login", 400, "Invalid Password", NoUser, TRUE, "none", NoData)
          ELSE Respond("login", 200, "Login Success", NoUser, TRUE, "none",
                       [kind |-> "login", user |-> id,
                        token |-> jwtSign([id |-> id, role |-> users[id].role])])

\* user.isActive = false
Deactivate(isActive) == FALSE

\* user.isActive = !user.isActive
Negate(isActive) == ~isActive

\* The toggle-user requests on document id that have read it and not yet
\* saved it.
TogglesOn(id) == {p \in Parked("director/toggle-user") : p.id = id}

\* PUT /director/toggle-user/:id, first half: findById and negate the flag
\* of the document read.  A request that reads while another request on the
\* same document is parked overlaps it (both are marked).
ToggleRead(user) ==
  /\ StoreUnchanged
  /\ Rest
  /\ \E id \in 1..(Len(users) + 1), fail \in BOOLEAN :
       IF fail
       THEN Uncaught("director/toggle-user", user, "store") /\ UNCHANGED pending
       ELSE IF id \notin UserIds
       THEN Uncaught("director/toggle-user", user, "notfound") /\ UNCHANGED pending
       ELSE LET Mark(p) == IF p \in TogglesOn(id)
                           THEN [p EXCEPT !.overlapped = TRUE] ELSE p
                mine == [Idle EXCEPT !.op = "director/toggle-user", !.id = id,
                                     !.isActive = Negate(users[id].isActive),
                                     !.overlapped = TogglesOn(id) # {},
                                     !.user = user]
            IN /\ BagCardinality(pending) < MaxPending
               /\ pending' = BagOfAll(Mark, pending) (+) SetToBag({mine})
               /\ resp' = InFlight

\* Second half: await user.save() writes the negated flag back.
ToggleSave ==
  \E p \in Parked("director/toggle-user"), fail \in BOOLEAN :
     /\ Resume(p)
     /\ UNCHANGED <<vehicles, bookings, owner>>
     /\ Rest
     /\ IF fail
        THEN Uncaught(p.op, p.user, "store") /\ UNCHANGED users
        ELSE /\ users' = [users EXCEPT ![p.id].isActive = p.isActive]
             /\ Respond(p.op, 200, "User status updated", p.user, TRUE, "none",
                        [kind |-> "toggle", id |-> p.id,
                         before |-> users[p.id].isActive,
                         overlapped |-> p.overlapped])

ToggleUser ==
  \/ \E auth \in AuthInputs :
       LET g == Chain("director/toggle-user", auth[1], auth[2])
       IN IF ~g.next
          THEN /\ Short("director/toggle-user", g)
               /\ StoreUnchanged /\ Rest /\ UNCHANGED pending
          ELSE ToggleRead(g.user)
  \/ ToggleSave

(* ------------------------------ bookings ------------------------------ *)

BookingIds == 1..Len(bookings)

\* The reply of a handler whose one store call is a find with no try/catch
\* around it: the ids of the documents found.
ListReply(ep, user, ids) ==
  /\ StoreUnchanged /\ Rest /\ UNCHANGED pending
  /\ \E fail \in BOOLEAN :
       IF fail THEN Uncaught(ep, user, "store")
       ELSE Respond(ep, 200, "", user, TRUE, "none", [kind |-> "ids", ids |-> ids])

\* A guard ended a request that would only have read the store.
ShortRead(ep, g) == Short(ep, g) /\ StoreUnchanged /\ Rest /\ UNCHANGED pending

\* new Booking({...}) with the schema default for status.
NewBooking(user, id, body) ==
  [customerId |-> id, customerName |-> user.name,
   customerPhone |-> user.phoneNumber, vehicleId |-> body.vehicleId,
   vehicleType |-> body.vehicleType, fromLocation |-> body.fromLocation,
   toLocation |-> body.toLocation, travelDate |-> body.travelDate,
   amount |-> body.amount, status |-> "pending"]

BookBodies ==
  [vehicleId : {1}, vehicleType : {"Bus"}, fromLocation : {"Guntur"},
   toLocation : {"Hyderabad"}, travelDate : {20260101}, amount : Amounts]

\* POST /book
Book ==
  \E auth \in AuthInputs :
    LET g == Chain("book", auth[1], auth[2])
    IN /\ Len(bookings) < MaxBookings
       /\ UNCHANGED <<users, vehicles, pending>> /\ Rest
       /\ IF ~g.next
          THEN Short("book", g) /\ UNCHANGED <<bookings, owner>>
          ELSE \E body \in BookBodies, fail \in BOOLEAN :
            IF fail
            THEN Caught("book", g.user, "store", StoreDown) /\ UNCHANGED <<bookings, owner>>
            ELSE IF g.user.id \notin UserIds
            THEN Caught("book", g.user, "notfound", NullDocument) /\ UNCHANGED <<bookings, owner>>
            ELSE /\ bookings' = Append(bookings,
                      NewBooking(users[g.user.id], g.user.id, body))
                 /\ owner' = Append(owner, g.user.id)
                 /\ Respond("book", 201, "Booking Created", g.user, TRUE,
                            "none", NoData)

\* Booking.find() with the filter left out.
AllBookings(user) == BookingIds

\* Booking.find({ customerId: req.user.id })
MineOnly(user) == {i \in BookingIds : bookings[i].customerId = user.id}

\* GET /my-bookings
MyBookings ==
  \E auth \in AuthInputs :
    LET g == Chain("my-bookings", auth[1], auth[2])
    IN IF ~g.next THEN ShortRead("my-bookings", g)
       ELSE ListReply("my-bookings", g.user, MineOnly(g.user))

\* GET /admin/bookings
AdminBookings ==
  \E auth \in AuthInputs :
    LET g == Chain("admin/bookings", auth[1], auth[2])
    IN IF ~g.next THEN ShortRead("admin/bookings", g)
       ELSE ListReply("admin/bookings", g.user, BookingIds)

\* Booking.find({ customerPhone: req.params.phone })
ByPhone(phone) == {i \in BookingIds : bookings[i].customerPhone = phone}

\* GET /admin/search/:phone
AdminSearch ==
  \E auth \in AuthInputs :
    LET g == Chain("admin/search", auth[1], auth[2])
    IN IF ~g.next THEN ShortRead("admin/search", g)
       ELSE \E phone \in {3, 4, 5} :
              ListReply("admin/search", g.user, ByPhone(phone))

\* findByIdAndUpdate(id, update): the fields of the update overwrite the
\* document's; nothing is validated.
ApplyUpdate(doc, update) ==
  [f \in DOMAIN doc |-> IF f \in DOMAIN update THEN update[f] ELSE doc[f]]

\* The whole request body used as the update document.
WholeBody(body) == body

\* const { status } = req.body; the update document is { status }.
StatusUpdate(body) == [status |-> body.status]

\* The bodies a client sends: a status, with or without other fields.
StatusBodies ==
  [status : BookingStatuses] \cup [status : BookingStatuses, amount : {999}]

\* PUT /admin/update-status/:id
UpdateStatus ==
  \E auth \in AuthInputs :
    LET ep == "admin/update-status"
        g == Chain(ep, auth[1], auth[2])
    IN /\ UNCHANGED <<users, vehicles, owner, pending>> /\ Rest
       /\ IF ~g.next THEN Short(ep, g) /\ UNCHANGED bookings
          ELSE \E id \in 1..(Len(bookings) + 1), body \in StatusBodies,
                  fail \in BOOLEAN :
            IF fail THEN Uncaught(ep, g.user, "store") /\ UNCHANGED bookings
            ELSE IF id \notin BookingIds
            THEN /\ Respond(ep, 200, "Status Updated", g.user, TRUE, "notfound",
                            NoData)
                 /\ UNCHANGED bookings
            ELSE /\ bookings' = [bookings EXCEPT
                                   ![id] = ApplyUpdate(@, StatusUpdate(body))]
                 /\ Respond(ep, 200, "Status Updated", g.user, TRUE, "none",
                            [kind |-> "id", id |-> id])

\* b.amount with the `|| 0` left out.
AmountRaw(amount) == amount

\* b.amount || 0
AmountOrZero(amount) == IF amount = Absent \/ amount = 0 THEN 0 ELSE amount

\* bookings.reduce((sum, b) => sum + (b.amount || 0), 0)
RECURSIVE Reduce(_, _)
Reduce(docs, sum) ==
  IF docs = <<>> THEN sum
  ELSE Reduce(Tail(docs), sum + AmountOrZero(Head(docs).amount))

\* Booking.find({ status: "completed" })
Completed == SelectSeq(bookings, LAMBDA b : b.status = "completed")

\* GET /director/revenue
Revenue ==
  \E auth \in AuthInputs :
    LET ep == "director/revenue"
        g == Chain(ep, auth[1], auth[2])
    IN IF ~g.next THEN ShortRead(ep, g)
       ELSE /\ StoreUnchanged /\ Rest /\ UNCHANGED pending
            /\ \E fail \in BOOLEAN :
                 IF fail THEN Uncaught(ep, g.user, "store")
                 ELSE Respond(ep, 200, "", g.user, TRUE, "none",
                        [kind |-> "revenue",
                         totalCompletedTrips |-> Len(Completed),
                         totalRevenue |-> Reduce(Completed, 0)])

(* ------------------------------ vehicles ------------------------------ *)

VehicleIds == 1..Len(vehicles)

\* A driver reference a client may send: none, an account's id, or an
\* ObjectId that is no account's.
DriverRefs == {Absent} \cup 1..(Len(users) + 1)

\* new Vehicle(req.body) with the schema default for status.
NewVehicle(body) ==
  [vehicleNumber |-> body.vehicleNumber, type |-> body.type,
   capacity |-> body.capacity, driverId |-> body.driverId,
   status |-> IF body.status = "" THEN "available" ELSE body.status]

VehicleBodies ==
  [vehicleNumber : {"AP07"}, type : {"Bus"}, capacity : {40},
   driverId : DriverRefs, status : {"", "maintenance"}]

\* POST /director/add-vehicle
AddVehicle ==
  \E auth \in AuthInputs :
    LET ep == "director/add-vehicle"
        g == Chain(ep, auth[1], auth[2])
    IN /\ Len(vehicles) < MaxVehicles
       /\ UNCHANGED <<users, bookings, owner, pending>> /\ Rest
       /\ IF ~g.next THEN Short(ep, g) /\ UNCHANGED vehicles
          ELSE \E body \in VehicleBodies, fail \in BOOLEAN :
            IF fail THEN Uncaught(ep, g.user, "store") /\ UNCHANGED vehicles
            ELSE /\ vehicles' = Append(vehicles, NewVehicle(body))
                 /\ Respond(ep, 200, "Vehicle Added", g.user, TRUE, "none", NoData)

\* The fields an update-vehicle body may carry.
VehicleUpdates ==
  [driverId : DriverRefs] \cup [status : VehicleStatuses]
  \cup [driverId : DriverRefs, status : VehicleStatuses]

\* PUT /director/update-vehicle/:id
UpdateVehicle ==
  \E auth \in AuthInputs :
    LET ep == "director/update-vehicle"
        g == Chain(ep, auth[1], auth[2])
    IN /\ UNCHANGED <<users, bookings, owner, pending>> /\ Rest
       /\ IF ~g.next THEN Short(ep, g) /\ UNCHANGED vehicles
          ELSE \E id \in 1..(Len(vehicles) + 1), body \in VehicleUpdates,
                  fail \in BOOLEAN :
            IF fail THEN Uncaught(ep, g.user, "store") /\ UNCHANGED vehicles
            ELSE IF id \notin VehicleIds
            THEN /\ Respond(ep, 200, "Vehicle Updated", g.user, TRUE, "notfound",
                            NoData)
                 /\ UNCHANGED vehicles
            ELSE /\ vehicles' = [vehicles EXCEPT ![id] = ApplyUpdate(@, body)]
                 /\ Respond(ep, 200, "Vehicle Updated", g.user, TRUE, "none",
                            NoData)

\* GET /director/vehicles
Vehicles ==
  \E auth \in AuthInputs :
    LET g == Chain("director/vehicles", auth[1], auth[2])
    IN IF ~g.next THEN ShortRead("director/vehicles", g)
       ELSE ListReply("director/vehicles", g.user, VehicleIds)

(* ------------------------------ all-users ----------------------------- *)

\* sort({ createdAt: -1 }): newest first, i.e. by descending id.
RECURSIVE NewestFirst(_)
NewestFirst(ids) ==
  IF ids = {} THEN <<>>
  ELSE LET m == CHOOSE x \in ids : \A y \in ids : y <= x
       IN <<m>> \o NewestFirst(ids \ {m})

\* { name: { $regex: search } } or { phoneNumber: { $regex: search } };
\* a search term is <<>> (none), <<"name", n>> or <<"phone", p>>.
SearchMatches(u, search) ==
  IF search = <<>> THEN TRUE
  ELSE IF search[1] = "name" THEN u.name = search[2]
  ELSE u.phoneNumber = search[2]

UserQuery(search, role) ==
  {i \in UserIds : SearchMatches(users[i], search)
                   /\ (role = "" \/ users[i].role = role)}

Min(a, b) == IF a <= b THEN a ELSE b

\* .skip((page - 1) * limit).limit(limit)
PageOf(sorted, page, limit) ==
  SubSeq(sorted, (page - 1) * limit + 1, Min(page * limit, Len(sorted)))

\* Math.ceil(totalUsers / limit)
TotalPages(totalUsers, limit) == (totalUsers + limit - 1) \div limit

DefaultLimit == 25

\* GET /director/all-users
AllUsers ==
  \E auth \in AuthInputs :
    LET ep == "director/all-users"
        g == Chain(ep, auth[1], auth[2])
    IN IF ~g.next THEN ShortRead(ep, g)
       ELSE /\ StoreUnchanged /\ Rest /\ UNCHANGED pending
            /\ \E page \in {1, 2}, limit \in {2, DefaultLimit},
                  search \in {<<>>, <<"name", "Anil">>, <<"phone", 5>>},
                  role \in {"", "customer"}, fail \in BOOLEAN :
                 LET found == UserQuery(search, role)
                 IN IF fail THEN Caught(ep, g.user, "store", StoreDown)
                    ELSE Respond(ep, 200, "", g.user, TRUE, "none",
                           [kind |-> "page",
                            users |-> PageOf(NewestFirst(found), page, limit),
                            totalPages |-> TotalPages(Cardinality(found), limit),
                            currentPage |-> page])

(* ---------------------- the middleware on its own --------------------- *)

\* Any token a request can carry: every payload, signed by us or not,
\* expired or not.
AnyToken == [id : {1, 2}, role : Roles, sig : {SECRET, "forged"}, expired : BOOLEAN]

NoGuard ==
  [ep |-> "", cookie |-> NoToken, header |-> <<>>, done |-> FALSE,
   auth |-> Pass(NoUser), out |-> Pass(NoUser)]

\* The requests to a protected route, by what they carry.
GuardRequests ==
  {[NoGuard EXCEPT !.ep = ep, !.cookie = c, !.header = h] :
     ep \in Protected, c \in {NoToken} \cup AnyToken,
     h \in {<<>>, <<"Bearer">>} \cup {<<"Bearer", t>> : t \in AnyToken}}

\* The request passes through authenticateToken (auth: its outcome) and,
\* if that calls next(), authorizeRoles (out: the outcome of the chain; the
\* route handler is invoked when out.next).
RunChain ==
  /\ guard.ep # ""
  /\ ~guard.done
  /\ guard' = [guard EXCEPT !.done = TRUE,
                            !.auth = authenticateToken(guard.cookie, guard.header),
                            !.out = Chain(guard.ep, guard.cookie, guard.header)]
  /\ UNCHANGED <<users, vehicles, bookings, pending, resp, owner, workload>>

(* --------------------------- specifications --------------------------- *)

Account(name, phoneNumber, role) ==
  NewUser(name, phoneNumber, bcryptHash("pw"), role)

\* The database of a deployment in use: the director (an account no route
\* can create) was seeded, has created an admin and a driver, and two
\* customers have registered.  Vehicles and Bookings are empty.
InitStore ==
  /\ users = <<Account("Srinu", 0, "director"), Account("Anil", 1, "admin"),
               Account("Anil", 2, "driver"), Account("Anil", 3, "customer"),
               Account("Anil", 4, "customer")>>
  /\ vehicles = <<>>
  /\ bookings = <<>>
  /\ owner = <<>>
  /\ pending = EmptyBag
  /\ resp = InFlight

Workloads == {"accounts", "toggle", "bookings", "fleet"}

Init == InitStore /\ workload \in Workloads /\ guard = NoGuard

\* The response written by the last step leaves for the network.
Flush ==
  /\ resp # InFlight
  /\ resp' = InFlight
  /\ UNCHANGED <<users, vehicles, bookings, pending, owner, workload, guard>>

\* One step of the event loop.  The clients of a run call the endpoints of
\* one group: account creation and login, account activation, the booking
\* desk, or the fleet.
\* The event loop is free to run a handler step of workload w.
Ready(w) == resp = InFlight /\ workload = w

Next ==
  \/ Flush
  \/ Ready("accounts") /\ Register
  \/ Ready("accounts") /\ Login
  \/ Ready("accounts") /\ CreateAdmin
  \/ Ready("accounts") /\ CreateDriver
  \/ Ready("accounts") /\ AllUsers
  \/ Ready("toggle") /\ ToggleUser
  \/ Ready("bookings") /\ Book
  \/ Ready("bookings") /\ MyBookings
  \/ Ready("bookings") /\ AdminBookings
  \/ Ready("bookings") /\ UpdateStatus
  \/ Ready("bookings") /\ AdminSearch
  \/ Ready("bookings") /\ Revenue
  \/ Ready("fleet") /\ AddVehicle
  \/ Ready("fleet") /\ UpdateVehicle
  \/ Ready("fleet") /\ Vehicles

Spec == Init /\ [][Next]_vars

InitGuard == InitStore /\ workload = "accounts" /\ guard \in GuardRequests

SpecGuard == InitGuard /\ [][RunChain]_vars

(* ------------------------------ properties ---------------------------- *)

\* C1: in every reachable state no two User records share a phone number,
\* whatever their roles and however the look-up-then-insert requests of
\* register, create-admin and create-driver interleave.
PhoneUnique ==
  \A i \in UserIds, j \in UserIds :
    users[i].phoneNumber = users[j].phoneNumber => i = j

\* C1 witness: a registration whose look-up found the phone free loses the
\* race, and its insert is refused by the store.
DuplicateRefused == resp.ep = "register" /\ resp.msg = DuplicateKey

\* The allow-list of the specification's route table.
ClaimedRoles(ep) ==
  IF ep \in {"book", "my-bookings"} THEN {"customer"}
  ELSE IF ep \in {"admin/bookings", "admin/update-status", "admin/search"}
  THEN {"admin", "director"}
  ELSE {"director"}

\* C2: a request to a protected endpoint that carries an authenticated
\* identity of one of the four roles has its handler run if and only if the
\* role is in the endpoint's allow-list; when it is not, the reply is 403
\* and the step leaves Users, Vehicles and Bookings unchanged.
RoleGate ==
  [][(resp'.ep \in Protected /\ resp'.user.role \in Roles) =>
       /\ resp'.ran <=> resp'.user.role \in ClaimedRoles(resp'.ep)
       /\ ~resp'.ran => /\ resp'.status = 403
                        /\ UNCHANGED <<users, vehicles, bookings>>]_vars

\* C2 witness: a customer's request to admin/bookings is refused with 403
\* and the handler does not run.
CustomerRefused ==
  /\ resp.ep = "admin/bookings"
  /\ resp.user.role = "customer"
  /\ resp.status = 403
  /\ ~resp.ran

Identity(token) == [id |-> token.id, role |-> token.role]

\* C3 (as claimed): a valid token carried only by the jwt_token cookie, or
\* only by the Authorization header, passes the Authentication Guard with
\* its id and role attached; when both carry a token the cookie's is the
\* one verified.
EitherCarrier ==
  guard.done =>
    LET c == guard.cookie
        h == HeaderToken(guard.header)
    IN /\ (c # NoToken /\ jwtVerify(c) /\ guard.header = <<>>) =>
            guard.auth.next /\ guard.auth.user = Identity(c)
       /\ (c = NoToken /\ h # NoToken /\ jwtVerify(h)) =>
            guard.auth.next /\ guard.auth.user = Identity(h)
       /\ (c # NoToken /\ h # NoToken) =>
            /\ guard.auth.next <=> jwtVerify(c)
            /\ guard.auth.next => guard.auth.user = Identity(c)

\* C4 (as claimed): every authentication failure ends the request with 401
\* and no handler invocation, and 403 is produced only for a verified
\* identity whose role is outside the endpoint's allow-list.
AuthFailureIs401 ==
  guard.done =>
    /\ ~guard.auth.next => guard.auth.status = 401 /\ ~guard.out.next
    /\ guard.out.status = 403 =>
         /\ guard.auth.next
         /\ guard.auth.user.role \notin ClaimedRoles(guard.ep)

\* C5 (as claimed): a request whose store call fails, or whose lookup by id
\* returns no record, ends with a 500 response that carries the underlying
\* message.
FailureIs500 ==
  resp.failure # "none" =>
    resp.status = 500 /\ resp.msg \in {StoreDown, DuplicateKey, NullDocument}

\* C6: a successful my-bookings reply lists exactly the bookings the caller
\* created, and each of them carries the caller's id as customer reference.
MyBookingsExact ==
  (resp.ep = "my-bookings" /\ resp.status = 200) =>
    /\ resp.data.ids = {i \in 1..Len(owner) : owner[i] = resp.user.id}
    /\ \A i \in resp.data.ids : bookings[i].customerId = resp.user.id

\* C6 witness: the caller gets a booking of their own while another
\* customer's booking exists and is left out.
OthersExcluded ==
  /\ resp.ep = "my-bookings"
  /\ resp.status = 200
  /\ resp.data.ids # {}
  /\ \E i \in BookingIds : i \notin resp.data.ids

CompletedIds == {i \in BookingIds : bookings[i].status = "completed"}

RECURSIVE SumAmounts(_)
SumAmounts(ids) ==
  IF ids = {} THEN 0
  ELSE LET i == CHOOSE x \in ids : TRUE
       IN (IF bookings[i].amount = Absent THEN 0 ELSE bookings[i].amount)
          + SumAmounts(ids \ {i})

\* C7: a successful director/revenue reply gives the number of bookings that
\* are completed at the time of the call and the sum of their amounts, a
\* missing amount counting 0; other bookings count for nothing.
RevenueExact ==
  (resp.ep = "director/revenue" /\ resp.status = 200) =>
    /\ resp.data.totalCompletedTrips = Cardinality(CompletedIds)
    /\ resp.data.totalRevenue = SumAmounts(CompletedIds)

\* C7 witness: one completed booking without an amount and one booking with
\* an amount in another status: one trip, revenue 0.
RevenueSkips ==
  /\ resp.ep = "director/revenue"
  /\ resp.status = 200
  /\ resp.data.totalCompletedTrips = 1
  /\ resp.data.totalRevenue = 0
  /\ \E i \in BookingIds :
       bookings[i].status # "completed" /\ bookings[i].amount = 100

\* C8: no step deletes a booking or changes a field of it other than status,
\* and a status changes only in a step of admin/update-status by an admin
\* or a director, addressed to that booking.
BookingFrame ==
  [][/\ Len(bookings') >= Len(bookings)
     /\ \A i \in BookingIds :
          /\ [bookings'[i] EXCEPT !.status = bookings[i].status] = bookings[i]
          /\ bookings'[i].status # bookings[i].status =>
               /\ resp'.ep = "admin/update-status"
               /\ resp'.user.role \in {"admin", "director"}
               /\ resp'.data = [kind |-> "id", id |-> i]]_vars

\* C8 witness: an admin has set a booking to completed.
AdminCompleted ==
  /\ resp.ep = "admin/update-status"
  /\ resp.user.role = "admin"
  /\ resp.data.kind = "id"
  /\ bookings[resp.data.id].status = "completed"

\* C9 (as claimed): each Vehicle's driver reference, if present, is the id
\* of an existing User.
DriverExists ==
  \A v \in VehicleIds :
    vehicles[v].driverId # Absent => vehicles[v].driverId \in UserIds

\* C10: a toggle-user request that overlaps no other request on the same
\* User leaves the flag the negation of what the store held (so two run one
\* after the other restore the flag).
ToggleFlips ==
  (resp.ep = "director/toggle-user" /\ resp.status = 200
   /\ ~resp.data.overlapped) =>
    users[resp.data.id].isActive = ~resp.data.before

\* C10 witness: of two overlapping requests that read the same value, the
\* second to save reports success and leaves the flag as it found it: the
\* flag was flipped once by the two.
LostToggle ==
  /\ resp.ep = "director/toggle-user"
  /\ resp.status = 200
  /\ resp.data.overlapped
  /\ users[resp.data.id].isActive = resp.data.before

====
